---- MODULE Spec2Model ----
(***************************************************************************)
(* Model of the hybrid retrieval engine of the financial-regulation agent: *)
(* retrieval/hybrid_search.py (filter normalisation, recency key, weighted *)
(* reciprocal rank fusion, hybrid_search) and retrieval/vector_store.py    *)
(* (the process-wide store singleton).                                     *)
(*                                                                         *)
(* Python values are tagged records  [t, n, s, l] :                        *)
(*   t = "none" | "int" | "str" | "list" | "dict"                          *)
(*   n = the integer of an int, s = the characters of a str (a sequence of *)
(*   one-character strings), l = the elements of a list, or the pair       *)
(*   <<value of "$gte", value of "$lte">> of a year-range dict.            *)
(***************************************************************************)
EXTENDS Integers, Sequences, FiniteSets, TLC

\* ------------------------------------------------------------------ values
None == [t |-> "none", n |-> 0, s |-> <<>>, l |-> <<>>]
PInt(i) == [t |-> "int", n |-> i, s |-> <<>>, l |-> <<>>]
PStr(str) == [t |-> "str", n |-> 0, s |-> str, l |-> <<>>]
PList(elems) == [t |-> "list", n |-> 0, s |-> <<>>, l |-> elems]
PDict(gte, lte) == [t |-> "dict", n |-> 0, s |-> <<>>, l |-> <<gte, lte>>]

\* Python truthiness ("if v:")
Truthy(v) ==
    CASE v.t = "none" -> FALSE
      [] v.t = "int" -> v.n # 0
      [] v.t = "str" -> v.s # <<>>
      [] v.t = "list" -> v.l # <<>>
      [] OTHER -> TRUE

Min(a, b) == IF a <= b THEN a ELSE b
Max(a, b) == IF a >= b THEN a ELSE b

Digits == <<"0", "1", "2", "3", "4", "5", "6", "7", "8", "9">>
IsDigit(c) == \E i \in 1..10 : Digits[i] = c
DigitVal(c) == (CHOOSE i \in 1..10 : Digits[i] = c) - 1
IsSpace(c) == c = " "

\* str.strip()
RECURSIVE LStrip(_)
LStrip(str) ==
    IF str # <<>> /\ IsSpace(Head(str)) THEN LStrip(Tail(str)) ELSE str
RECURSIVE RStrip(_)
RStrip(str) ==
    IF str # <<>> /\ IsSpace(str[Len(str)])
    THEN RStrip(SubSeq(str, 1, Len(str) - 1)) ELSE str
Strip(str) == RStrip(LStrip(str))

\* str.lower()
Upper == <<"A", "B", "C", "D", "E", "F", "G", "H", "I", "J", "K", "L", "M",
           "N", "O", "P", "Q", "R", "S", "T", "U", "V", "W", "X", "Y", "Z">>
Letters == <<"a", "b", "c", "d", "e", "f", "g", "h", "i", "j", "k", "l", "m",
             "n", "o", "p", "q", "r", "s", "t", "u", "v", "w", "x", "y", "z">>
LowerChar(c) ==
    IF \E i \in 1..26 : Upper[i] = c
    THEN Letters[CHOOSE i \in 1..26 : Upper[i] = c] ELSE c
Lower(str) == [i \in 1..Len(str) |-> LowerChar(str[i])]
IsWordChar(c) == IsDigit(c) \/ c = "_" \/ \E i \in 1..26 : Letters[i] = LowerChar(c)

RECURSIVE DigitsValue(_)
DigitsValue(str) ==
    IF str = <<>> THEN 0
    ELSE 10 * DigitsValue(SubSeq(str, 1, Len(str) - 1)) + DigitVal(str[Len(str)])

AllDigits(str) == str # <<>> /\ \A i \in 1..Len(str) : IsDigit(str[i])

\* int(str): surrounding whitespace and one leading sign are accepted
IntOfStr(str) ==
    LET b == Strip(str)
        signed == b # <<>> /\ (b[1] = "-" \/ b[1] = "+")
        body == IF signed THEN Tail(b) ELSE b
    IN IF ~AllDigits(body) THEN None
       ELSE IF signed /\ b[1] = "-" THEN PInt(0 - DigitsValue(body))
       ELSE PInt(DigitsValue(body))

\* str(int)
RECURSIVE NatToStr(_)
NatToStr(i) ==
    IF i < 10 THEN <<Digits[i + 1]>>
    ELSE NatToStr(i \div 10) \o <<Digits[(i % 10) + 1]>>
IntToStr(i) == IF i < 0 THEN <<"-">> \o NatToStr(0 - i) ELSE NatToStr(i)

\* str(v) for an int or a str
StrOf(v) == IF v.t = "int" THEN IntToStr(v.n) ELSE v.s

\* --------------------------------------------------- filter normalisation
_normalize_list(val) ==
    IF val.t = "none" THEN None
    ELSE IF val.t = "list" THEN (IF val.l # <<>> THEN val ELSE None)
    ELSE PList(<<val>>)

_safe_int(val) ==
    CASE val.t = "int" -> val
      [] val.t = "str" -> IntOfStr(val.s)
      [] OTHER -> None

\* A predicate tree node.  op = "none" is the distinguished "no filter".
\*   "$eq":    metadata[key] = val            "$in": metadata[key] in val.l
\*   "$range": val = PDict(gte, lte), the operator dict under the key
\*   "$or", "$and": over parts
NoWhere == [op |-> "none", key |-> "", val |-> None, parts |-> <<>>]
Leaf(op, key, val) == [op |-> op, key |-> key, val |-> val, parts |-> <<>>]
Junction(op, parts) == [op |-> op, key |-> "", val |-> None, parts |-> parts]

\* list(range(a, b + 1)) rendered with str()
YearStrings(a, b) == [i \in 1..(IF b >= a THEN b - a + 1 ELSE 0) |-> PStr(IntToStr(a + i - 1))]

RangeYears(gte, lte) ==
    IF gte.t = "int" /\ lte.t = "int" /\ lte.n >= gte.n
    THEN YearStrings(gte.n, lte.n)
    ELSE IF gte.t = "int" THEN YearStrings(gte.n, gte.n + 5)
    ELSE IF lte.t = "int" THEN YearStrings(Max(1900, lte.n - 5), lte.n)
    ELSE <<>>

\* a year condition that compares the number only
YearConditionIntOnly(year) ==
    IF _safe_int(year).t = "int" THEN Leaf("$eq", "year", _safe_int(year))
    ELSE NoWhere

_build_year_condition(year) ==
    IF year.t = "none" THEN NoWhere
    ELSE IF year.t = "dict" THEN
        LET gte == _safe_int(year.l[1])
            lte == _safe_int(year.l[2])
            years == RangeYears(gte, lte)
            or_parts == <<Leaf("$range", "year", PDict(gte, lte))>>
                        \o (IF years # <<>>
                            THEN <<Leaf("$in", "year", PList(years))>> ELSE <<>>)
        IN IF gte.t = "none" /\ lte.t = "none" THEN NoWhere
           ELSE Junction("$or", or_parts)
    ELSE
        LET y_int == _safe_int(year)
            y_str == Strip(StrOf(year))
        IN IF y_int.t # "none"
           THEN Junction("$or", <<Leaf("$eq", "year", y_int),
                                  Leaf("$eq", "year", PStr(y_str))>>)
           ELSE IF y_str # <<>> THEN Leaf("$eq", "year", PStr(y_str))
           ELSE NoWhere

\* A filter request: the dict handed to hybrid_search.  isNone = TRUE is
\* filters=None; a key that is absent reads as None, as dict.get gives it.
FiltersNone ==
    [isNone |-> TRUE, regulators |-> None, categories |-> None, types |-> None,
     jurisdiction |-> None, spiders |-> None, source_types |-> None,
     year |-> None, sort |-> None]
FiltersEmpty == [FiltersNone EXCEPT !.isNone = FALSE]

\* "not filters": None, or a dict without any key
FiltersFalsy(filters) == filters.isNone \/ filters = FiltersEmpty

InCondition(key, val) ==
    LET lst == _normalize_list(val)
    IN IF Truthy(lst) THEN <<Leaf("$in", key, lst)>> ELSE <<>>

_build_where(filters) ==
    IF FiltersFalsy(filters) THEN NoWhere
    ELSE
        LET year_cond == _build_year_condition(filters.year)
            conditions ==
                InCondition("regulator", filters.regulators)
                \o InCondition("category", filters.categories)
                \o InCondition("type", filters.types)
                \o (IF Truthy(filters.jurisdiction)
                    THEN <<Leaf("$eq", "jurisdiction", filters.jurisdiction)>>
                    ELSE <<>>)
                \o InCondition("spider", filters.spiders)
                \o InCondition("source_type", filters.source_types)
                \o (IF year_cond.op # "none" THEN <<year_cond>> ELSE <<>>)
        IN IF conditions = <<>> THEN NoWhere
           ELSE IF Len(conditions) = 1 THEN conditions[1]
           ELSE Junction("$and", conditions)

\* ------------------------------------------------------------- documents
\* Metadata: a key that is absent reads as None.
NoMetadata ==
    [doc_id |-> None, url |-> None, source |-> None,
     date |-> None, moddate |-> None, creationdate |-> None, year |-> None,
     regulator |-> None, category |-> None, type |-> None,
     jurisdiction |-> None, spider |-> None, source_type |-> None]

MetaGet(md, key) ==
    CASE key = "regulator" -> md.regulator
      [] key = "category" -> md.category
      [] key = "type" -> md.type
      [] key = "jurisdiction" -> md.jurisdiction
      [] key = "spider" -> md.spider
      [] key = "source_type" -> md.source_type
      [] key = "year" -> md.year
      [] OTHER -> None

\* The store's evaluation of a predicate tree on one document's metadata:
\* comparisons are typed (the integer 2024 is not the string "2024"), a
\* range only matches numbers, a missing key matches nothing.
RECURSIVE Matches(_, _)
Matches(node, md) ==
    LET v == MetaGet(md, node.key)
    IN CASE node.op = "none" -> TRUE
         [] node.op = "$eq" -> v.t # "none" /\ v = node.val
         [] node.op = "$in" -> v.t # "none" /\ \E i \in 1..Len(node.val.l) : node.val.l[i] = v
         [] node.op = "$range" ->
                /\ v.t = "int"
                /\ (node.val.l[1].t = "int" => v.n >= node.val.l[1].n)
                /\ (node.val.l[2].t = "int" => v.n <= node.val.l[2].n)
         [] node.op = "$or" -> \E i \in 1..Len(node.parts) : Matches(node.parts[i], md)
         [] node.op = "$and" -> \A i \in 1..Len(node.parts) : Matches(node.parts[i], md)
         [] OTHER -> FALSE

\* ---------------------------------------------------------------- recency
\* Days from 1970-01-01 to the civil date y-m-d (proleptic Gregorian).
DaysFromCivil(y, m, d) ==
    LET yy == IF m <= 2 THEN y - 1 ELSE y
        era == yy \div 400
        yoe == yy - era * 400
        mp == IF m > 2 THEN m - 3 ELSE m + 9
        doy == (153 * mp + 2) \div 5 + d - 1
        doe == yoe * 365 + yoe \div 4 - yoe \div 100 + doy
    IN era * 146097 + doe - 719468

IsLeap(y) == (y % 4 = 0 /\ y % 100 # 0) \/ y % 400 = 0
DaysInMonth(y, m) ==
    IF m = 2 THEN (IF IsLeap(y) THEN 29 ELSE 28)
    ELSE IF m \in {4, 6, 9, 11} THEN 30 ELSE 31

\* "YYYY-MM-DD", the form datetime.fromisoformat and "%Y-%m-%d" accept
IsIsoDate(str) ==
    /\ Len(str) = 10
    /\ str[5] = "-" /\ str[8] = "-"
    /\ AllDigits(SubSeq(str, 1, 4)) /\ AllDigits(SubSeq(str, 6, 7))
    /\ AllDigits(SubSeq(str, 9, 10))
    /\ LET y == DigitsValue(SubSeq(str, 1, 4))
           m == DigitsValue(SubSeq(str, 6, 7))
           d == DigitsValue(SubSeq(str, 9, 10))
       IN y >= 1 /\ m \in 1..12 /\ d \in 1..DaysInMonth(y, m)

NotADate ==
    {<<"u", "n", "k", "n", "o", "w", "n">>, <<"n", "/", "a">>, <<"n", "a">>,
     <<"n", "o", "n", "e">>}

\* The epoch of a date value, or None.  The date strings of the model carry
\* no time of day and are read as UTC, so the epoch is a whole number of
\* days; it is kept in days (seconds = 86400 * days), which keeps its sign
\* and its order.
_parse_date_to_epoch(date_val) ==
    IF ~Truthy(date_val) THEN None
    ELSE
        LET str == Strip(StrOf(date_val))
        IN IF str = <<>> \/ Lower(str) \in NotADate THEN None
           ELSE IF IsIsoDate(str)
           THEN PInt(DaysFromCivil(DigitsValue(SubSeq(str, 1, 4)),
                                   DigitsValue(SubSeq(str, 6, 7)),
                                   DigitsValue(SubSeq(str, 9, 10))))
           ELSE None

\* Python's "a or b" on two optional floats
OrElse(a, b) == IF Truthy(a) THEN a ELSE b

_recency_key(doc) ==
    LET md == doc.metadata
        e1 == _parse_date_to_epoch(md.date)
        epoch == IF e1.t = "none"
                 THEN OrElse(_parse_date_to_epoch(md.moddate),
                             _parse_date_to_epoch(md.creationdate))
                 ELSE e1
        y == OrElse(_safe_int(md.year), PInt(0))
    IN <<IF epoch.t # "none" THEN epoch.n ELSE 0, y.n>>

\* Python's order on (int, int) tuples
KeyLess(a, b) == a[1] < b[1] \/ (a[1] = b[1] /\ a[2] < b[2])
KeyGeq(a, b) == ~KeyLess(a, b)

\* list.sort(key=..., reverse=True) / sorted(..., reverse=True): stable, so
\* items with equal keys keep their order.  keys[i] is the key of items[i].
RECURSIVE InsertDesc(_, _, _, _)
InsertDesc(sortedItems, sortedKeys, item, key) ==
    IF sortedItems = <<>> THEN <<<<item>>, <<key>>>>
    ELSE IF KeyLess(Head(sortedKeys), key)
    THEN <<<<item>> \o sortedItems, <<key>> \o sortedKeys>>
    ELSE LET rest == InsertDesc(Tail(sortedItems), Tail(sortedKeys), item, key)
         IN <<<<Head(sortedItems)>> \o rest[1], <<Head(sortedKeys)>> \o rest[2]>>

RECURSIVE SortDescPairs(_, _)
SortDescPairs(items, keys) ==
    IF items = <<>> THEN <<<<>>, <<>>>>
    ELSE LET n == Len(items)
             front == SortDescPairs(SubSeq(items, 1, n - 1), SubSeq(keys, 1, n - 1))
         IN InsertDesc(front[1], front[2], items[n], keys[n])

SortDesc(items, keys) == SortDescPairs(items, keys)[1]

SortByRecency(docs) ==
    SortDesc(docs, [i \in 1..Len(docs) |-> _recency_key(docs[i])])

\* seq[:n] for n >= 0
Take(seq, n) == SubSeq(seq, 1, Min(n, Len(seq)))

\* ----------------------------------------------------------------- fusion
RRF_K == 60

IdentityKeys == <<"doc_id", "url", "source">>
IdentityGet(md, key) ==
    CASE key = "doc_id" -> md.doc_id [] key = "url" -> md.url [] OTHER -> md.source

\* The identity is a str: the first non-blank str among the identity keys,
\* stripped, else the first 300 characters of the content.
_doc_identity(doc) ==
    LET usable(i) == LET v == IdentityGet(doc.metadata, IdentityKeys[i])
                     IN v.t = "str" /\ Strip(v.s) # <<>>
    IN IF \E i \in 1..Len(IdentityKeys) : usable(i)
       THEN LET first == CHOOSE i \in 1..Len(IdentityKeys) :
                            usable(i) /\ \A j \in 1..(i - 1) : ~usable(j)
            IN Strip(IdentityGet(doc.metadata, IdentityKeys[first]).s)
       ELSE Take(doc.page_content, 300)

\* Scores are kept exact: a score s of the code is the integer s * 10 *
\* ScoreScale here.  Weights are in tenths, and ScoreScale is a common
\* multiple of RRF_K + rank for the ranks 1..5 that the model's lists have.
ScoreScale == 61 * 31 * 63 * 64 * 65
Contribution(weight, rank) == weight * (ScoreScale \div (RRF_K + rank))

\* The (docs, weight) sources in the order the loop visits them, flattened
\* to one sequence of [doc, weight, rank].
RrfEntries(vector_results, bm25_results, weights) ==
    [i \in 1..Len(bm25_results) |->
        [doc |-> bm25_results[i], weight |-> weights[1], rank |-> i]]
    \o [i \in 1..Len(vector_results) |->
        [doc |-> vector_results[i], weight |-> weights[2], rank |-> i]]

\* The identities in the insertion order of the rrf_score dict
RECURSIVE RrfOrder(_)
RrfOrder(entries) ==
    IF entries = <<>> THEN <<>>
    ELSE LET n == Len(entries)
             front == RrfOrder(SubSeq(entries, 1, n - 1))
             id == _doc_identity(entries[n].doc)
         IN IF \E i \in 1..Len(front) : front[i] = id THEN front
            ELSE Append(front, id)

RECURSIVE SumContributions(_, _)
SumContributions(entries, id) ==
    IF entries = <<>> THEN 0
    ELSE (IF _doc_identity(Head(entries).doc) = id
          THEN Contribution(Head(entries).weight, Head(entries).rank) ELSE 0)
         + SumContributions(Tail(entries), id)

DocMapLast(entries, id) ==
    entries[CHOOSE i \in 1..Len(entries) :
                /\ _doc_identity(entries[i].doc) = id
                /\ \A j \in (i + 1)..Len(entries) : _doc_identity(entries[j].doc) # id].doc

\* rrf_score[id] and doc_map[id]
RrfScore(entries, id) == SumContributions(entries, id)
DocMap(entries, id) ==
    entries[CHOOSE i \in 1..Len(entries) :
                /\ _doc_identity(entries[i].doc) = id
                /\ \A j \in 1..(i - 1) : _doc_identity(entries[j].doc) # id].doc

apply_rrf(vector_results, bm25_results, weights, limit) ==
    LET entries == RrfEntries(vector_results, bm25_results, weights)
        ids == RrfOrder(entries)
        sorted_ids == SortDesc(ids, [i \in 1..Len(ids) |-> <<RrfScore(entries, ids[i]), 0>>])
    IN [i \in 1..Min(limit, Len(sorted_ids)) |-> DocMap(entries, sorted_ids[i])]

\* ---------------------------------------------------------- latest intent
\* _LATEST_RE = \b(latest|recent|newest|current|most\s+recent|
\*                 up[-\s]?to[-\s]?date)\b   with re.I
\* "most\s+recent" matches only where "recent" does.  The up-to-date
\* alternative is listed with each optional separator present or absent.
LatestWords ==
    {<<"l", "a", "t", "e", "s", "t">>, <<"r", "e", "c", "e", "n", "t">>,
     <<"n", "e", "w", "e", "s", "t">>, <<"c", "u", "r", "r", "e", "n", "t">>}
UpToDateForms ==
    {<<"u", "p">> \o s1 \o <<"t", "o">> \o s2 \o <<"d", "a", "t", "e">> :
        s1 \in {<<>>, <<"-">>, <<" ">>}, s2 \in {<<>>, <<"-">>, <<" ">>}}

\* \b at both ends of str[i..j]
WordBounded(str, i, j) ==
    /\ IsWordChar(str[i]) /\ IsWordChar(str[j])
    /\ (i = 1 \/ ~IsWordChar(str[i - 1]))
    /\ (j = Len(str) \/ ~IsWordChar(str[j + 1]))

LatestReSearch(query) ==
    LET low == Lower(query)
    IN \E i \in 1..Len(low) : \E j \in i..Len(low) :
          /\ SubSeq(low, i, j) \in LatestWords \cup UpToDateForms
          /\ WordBounded(low, i, j)

\* str(filters.get("sort", "")).lower() == "latest"; str(None) is "None"
SortIsLatest(filters) ==
    filters.sort.t = "str" /\ Lower(filters.sort.s) = <<"l", "a", "t", "e", "s", "t">>

_wants_latest(query, filters) ==
    IF ~FiltersFalsy(filters) /\ SortIsLatest(filters) THEN TRUE
    ELSE LatestReSearch(query)

\* ------------------------------------------------------------- constants
DEFAULT_TOP_K == 8
\* weights are in tenths: 0.4 and 0.6
DEFAULT_BM25_WEIGHT == 4
DEFAULT_VECTOR_WEIGHT == 6
DEFAULT_CANDIDATE_MULTIPLIER == 4
DEFAULT_BM25_POOL_LIMIT == 800
DEFAULT_LATEST_POOL == 250

\* ------------------------------------------------------- the model's data
S_SEC == <<"S", "E", "C">>
S_FED == <<"F", "E", "D">>
S_US == <<"U", "S">>

Doc(content, doc_id, date, year, regulator) ==
    [page_content |-> content,
     metadata |-> [NoMetadata EXCEPT !.doc_id = PStr(doc_id), !.date = PStr(date),
                                     !.year = year, !.regulator = PStr(regulator),
                                     !.jurisdiction = PStr(S_US)]]

D2022 == <<"2", "0", "2", "2", "-", "0", "3", "-", "0", "1">>
D2023 == <<"2", "0", "2", "3", "-", "0", "3", "-", "0", "1">>
D2024 == <<"2", "0", "2", "4", "-", "0", "3", "-", "0", "1">>
D1900 == <<"1", "9", "0", "0", "-", "0", "1", "-", "0", "1">>
Unknown == <<"U", "n", "k", "n", "o", "w", "n">>

DocA == Doc(<<"r", "a", "t", "e", "s", " ", "a">>, <<"A">>, D2022, PInt(2022), S_SEC)
\* two chunks of one source document: same doc_id, different content
DocB1 == Doc(<<"r", "a", "t", "e", "s", " ", "b">>, <<"B">>, D2023, PStr(<<"2", "0", "2", "3">>), S_SEC)
DocB2 == Doc(<<"r", "a", "t", "e", "s", " ", "c">>, <<"B">>, D2023, PStr(<<"2", "0", "2", "3">>), S_SEC)
DocE == Doc(<<" ", "r", "a", "t", "e", "s", " ", "e">>, <<"E">>, D2024, PInt(2024), S_FED)
\* chunks whose text is blank
DocOld == Doc(<<>>, <<"O">>, Unknown, PInt(2021), S_SEC)
DocNew == Doc(<<" ">>, <<"N">>, D2024, PInt(2024), S_SEC)

\* The store snapshots, in storage order
Snapshots ==
    {<<DocA, DocB1, DocE>>, <<DocA, DocB1, DocB2>>, <<DocOld, DocNew>>,
     <<DocE, DocOld>>, <<>>}

Queries ==
    {<<"L", "a", "t", "e", "s", "t", " ", "r", "a", "t", "e", "s", "?">>,
     <<" ", " ", " ">>}

\* k: 0 stands for k=None (and for k=0, which "k or DEFAULT_TOP_K" treats alike)
MaxK == 2
Ks == 0..MaxK

\* (bm25_weight, vector_weight), in tenths
WeightArgs == {<<None, PInt(0)>>, <<PInt(0 - 5), PInt(0)>>}

FilterArgs ==
    {FiltersNone,
     [FiltersEmpty EXCEPT !.sort = PStr(<<"L", "A", "T", "E", "S", "T">>)],
     [FiltersEmpty EXCEPT !.regulators = PList(<<PStr(S_SEC)>>), !.year = PInt(2023)],
     [FiltersEmpty EXCEPT !.regulators = PStr(<<>>)],
     [FiltersEmpty EXCEPT !.year = PDict(PInt(2023), PInt(2022))]}

\* All orderings of n distinct positions of a list of length len
Arrangements(len, n) ==
    {f \in [1..n -> 1..len] : \A i, j \in 1..n : i # j => f[i] # f[j]}
Pick(seq, f) == [i \in 1..Len(f) |-> seq[f[i]]]
\* the rankings of at most n items of seq that a ranker may answer
Rankings(seq, n) == {Pick(seq, f) : f \in Arrangements(Len(seq), Min(n, Len(seq)))}


\* ------------------------------------------------------------------ state
VARIABLES
    store_docs,      \* the documents of the Chroma collection, in storage order
    _vector_store,   \* the module-level singleton of vector_store.py
    answers,         \* what the store, the rankers and the reranker have answered
    calls,           \* number of hybrid_search calls started
    returned,        \* the lists the caller has received, in order
    request,         \* the arguments of the call
    pc,              \* position of the running hybrid_search call
    top_k, weights, candidate_k, latest_mode, where, pool_limit,
    filtered_data, all_docs, bm25_task, vector_task, bm25_results,
    vector_results, fused, result,   \* locals of hybrid_search
    issued,          \* how many times this call has issued each external operation
    add_pc,          \* position of the running add_documents call
    add_calls,       \* number of add_documents calls started
    input_docs, batch_size, \* the arguments (docs, batch_size) of the running add_documents call
    batch_start,     \* its loop variable i
    upserts,         \* the store.add_documents calls of that call, in order
    collection,      \* the <<id, document>> entries the store has taken
    outcome,         \* "returned" (a list) or "raised" (an exception left the call)
    return_path,     \* source line of the return statement taken
    failed_call,     \* the external call that raised during this call, if any
    node,            \* the node of the agent graph that runs next
    state,           \* the AgentState of the running graph invocation
    max_iter,        \* MAX_VALIDATION_ITERATIONS of the environment
    critic_log       \* the runs of critic_node in this invocation, in order

env == <<store_docs>>
locals == <<top_k, weights, candidate_k, latest_mode, where, pool_limit,
            filtered_data, all_docs, bm25_task, vector_task, bm25_results,
            vector_results, fused, result, issued, outcome, return_path,
            failed_call>>
search == <<env, _vector_store, answers, calls, returned, request, pc, locals>>
ingest == <<add_pc, add_calls, input_docs, batch_size, batch_start, upserts,
            collection>>
agent == <<node, state, max_iter, critic_log>>
vars == <<search, ingest, agent>>

\* An answer of a collaborator: not asked yet, given (with the documents it
\* carries), or an exception.  A collaborator asked the same question again
\* gives the answer it gave before.
Unasked == [st |-> "unasked", docs |-> <<>>]
Given(st, docs) == [st |-> st, docs |-> docs]
Consistent(previous, answer) == previous.st = "unasked" \/ previous = answer

NothingIssued == [scan |-> 0, vector |-> 0, rerank |-> 0]

NoRequest ==
    [query |-> <<>>, k |-> 0, bm25_weight |-> None, vector_weight |-> None,
     use_reranker |-> FALSE, filters |-> FiltersNone]

\* No call is running and none has been made
Idle ==
    /\ answers = [construct |-> Unasked, count |-> Unasked, get |-> Unasked,
                  get_plain |-> Unasked, vector |-> Unasked, bm25 |-> Unasked,
                  cohere_key |-> Unasked, rerank |-> Unasked]
    /\ calls = 0
    /\ returned = <<>>
    /\ request = NoRequest
    /\ pc = "idle"
    /\ top_k = 0 /\ weights = <<0, 0>> /\ candidate_k = 0 /\ latest_mode = FALSE
    /\ where = NoWhere /\ pool_limit = 0 /\ filtered_data = <<>> /\ all_docs = <<>>
    /\ issued = NothingIssued
    /\ bm25_task = "none" /\ vector_task = "none"
    /\ bm25_results = <<>> /\ vector_results = <<>> /\ fused = <<>>
    /\ result = <<>> /\ outcome = "none" /\ return_path = "none"
    /\ failed_call = "none"

\* No add_documents call is running and none has been made
IngestIdle ==
    /\ add_pc = "idle" /\ add_calls = 0
    /\ input_docs = <<>> /\ batch_size = 0 /\ batch_start = 0 /\ upserts = <<>>
    /\ collection = {}

DEFAULT_MAX_VALIDATION_ITERATIONS == 3

\* The state the caller hands to the graph: no plan, no route, empty answer
\* fields, validation_result False and iterations 0
InitialState(query) ==
    [query |-> query, intent |-> "classify_intent", strong_filters |-> FALSE,
     tool_steps |-> FALSE, route |-> "none", response |-> <<>>,
     synthesized_response |-> <<>>, validation_result |-> FALSE,
     iterations |-> 0, final_output |-> <<>>]

\* The graph has not been invoked
AgentIdle ==
    /\ node = "idle" /\ state = InitialState(<<>>)
    /\ max_iter = DEFAULT_MAX_VALIDATION_ITERATIONS /\ critic_log = <<>>

Init ==
    /\ store_docs \in Snapshots
    /\ _vector_store \in {"None", "store"}
    /\ Idle
    /\ IngestIdle
    /\ AgentIdle

\* lines 260-267: the locals computed before the try block
NormalWeight(arg, default) == IF arg.t = "none" THEN default ELSE Max(0, arg.n)
Weights(req) ==
    LET bw == NormalWeight(req.bm25_weight, DEFAULT_BM25_WEIGHT)
        vw == NormalWeight(req.vector_weight, DEFAULT_VECTOR_WEIGHT)
    IN IF bw = 0 /\ vw = 0 THEN <<DEFAULT_BM25_WEIGHT, DEFAULT_VECTOR_WEIGHT>>
       ELSE <<bw, vw>>
TopK(k) == IF k # 0 THEN k ELSE DEFAULT_TOP_K
CandidateK(topk) == Max(topk * DEFAULT_CANDIDATE_MULTIPLIER, topk)

Enter(req) ==
    /\ pc = "idle"
    /\ calls' = calls + 1
    /\ request' = req
    /\ top_k' = TopK(req.k)
    /\ weights' = Weights(req)
    /\ candidate_k' = CandidateK(TopK(req.k))
    /\ latest_mode' = _wants_latest(req.query, req.filters)
    /\ pc' = "get_store"
    /\ UNCHANGED <<env, _vector_store, answers, returned, where, pool_limit,
                   filtered_data, all_docs, bm25_task, vector_task,
                   bm25_results, vector_results, fused, result, issued, outcome,
                   return_path, failed_call>>
    /\ UNCHANGED <<ingest, agent>>

\* The caller calls hybrid_search(query, k, bm25_weight, vector_weight,
\* use_reranker, filters).
Call ==
    /\ calls = 0
    /\ \E q \in Queries, k \in Ks, w \in WeightArgs, r \in BOOLEAN, f \in FilterArgs :
          Enter([query |-> q, k |-> k, bm25_weight |-> w[1], vector_weight |-> w[2],
                 use_reranker |-> r, filters |-> f])

\* The caller repeats the call with the same arguments.
CallAgain ==
    /\ calls = 1
    /\ Enter(request)

\* lines 360-362: "except Exception" logs and returns []
ExceptOutcomeReraise == "raised"
ExceptOutcome == "returned"
ExceptResult == <<>>
\* an except clause too narrow for the RuntimeError of get_vector_store
CaughtNarrow(call) ==
    /\ result' = ExceptResult
    /\ outcome' = IF call = "get_vector_store" THEN "raised" ELSE "returned"
    /\ return_path' = "362"
    /\ failed_call' = call
    /\ pc' = "done"
Caught(call) ==
    /\ result' = ExceptResult
    /\ outcome' = ExceptOutcome
    /\ return_path' = "362"
    /\ failed_call' = call
    /\ pc' = "done"

\* line 287
PoolLimit(latest, ck) ==
    IF latest THEN Max(DEFAULT_LATEST_POOL, ck * 8) ELSE DEFAULT_BM25_POOL_LIMIT

\* lines 276-291: the predicate and the pool limit are computed and the bulk
\* scan store.get(where, limit, include) is issued.  store.get is an ordinary
\* (blocking) call: hybrid_search does nothing else until it has answered.
IssueScan ==
    /\ where' = _build_where(request.filters)
    /\ pool_limit' = PoolLimit(latest_mode, candidate_k)
    /\ issued' = [issued EXCEPT !.scan = issued.scan + 1]
    /\ pc' = "scan"
    /\ UNCHANGED <<result, outcome, return_path, failed_call>>

\* vector_store.get_vector_store (lines 43-62) as called at line 274, then
\* lines 276-291.  The singleton is assigned as soon as Chroma is constructed,
\* before the count() probe; either step may raise, and the RuntimeError that
\* get_vector_store raises is caught at line 360.
GetStore ==
    /\ pc = "get_store"
    /\ \/ /\ _vector_store = "store"
          /\ UNCHANGED <<_vector_store, answers>>
          /\ IssueScan
       \/ /\ _vector_store = "None"
          /\ \E c \in {"ok", "fail"} :
                /\ Consistent(answers.construct, Given(c, <<>>))
                /\ IF c = "fail"
                   THEN /\ answers' = [answers EXCEPT !.construct = Given(c, <<>>)]
                        /\ UNCHANGED _vector_store
                        /\ Caught("get_vector_store")
                        /\ UNCHANGED <<where, pool_limit, issued>>
                   ELSE /\ _vector_store' = "store"
                        /\ \E n \in {"ok", "fail"} :
                              /\ Consistent(answers.count, Given(n, <<>>))
                              /\ answers' = [answers EXCEPT
                                                !.construct = Given(c, <<>>),
                                                !.count = Given(n, <<>>)]
                              /\ IF n = "fail"
                                 THEN /\ Caught("get_vector_store")
                                      /\ UNCHANGED <<where, pool_limit, issued>>
                                 ELSE IssueScan
    /\ UNCHANGED <<env, calls, returned, request, top_k, weights, candidate_k,
                   latest_mode, filtered_data, all_docs, bm25_task, vector_task,
                   bm25_results, vector_results, fused>>
    /\ UNCHANGED <<ingest, agent>>

\* What the store holds under a predicate, in storage order
MatchingDocs(docs, predicate) ==
    SelectSeq(docs, LAMBDA d : Matches(predicate, d.metadata))

\* lines 310-314: documents rebuilt from the scan, blank texts left out
IsBlank(content) == Strip(content) = <<>>
CleanDocs(scanned) ==
    LET kept == SelectSeq(scanned, LAMBDA d : ~IsBlank(d.page_content))
    IN [i \in 1..Len(kept) |->
           [page_content |-> Strip(kept[i].page_content), metadata |-> kept[i].metadata]]

\* lines 321-323
LatestPool(docs, latest, limit) ==
    IF latest THEN Take(SortByRecency(docs), limit) ELSE docs

\* lines 289-327: the bulk scan answers.  The call with limit and include
\* answers with the matching documents up to the limit, raises TypeError (a
\* wrapper that does not take limit/include: line 297 then issues store.get
\* again without them), or raises something else; the second call answers
\* with all the matching documents or raises.  An empty pool leads to the
\* vector-only return, whose retriever call is issued at line 304 or 318;
\* otherwise both retrievers are started under gather (line 329).
Scan ==
    /\ pc = "scan"
    /\ \/ /\ issued.scan = 1
          /\ Consistent(answers.get, Given("typeerror", <<>>))
          /\ answers' = [answers EXCEPT !.get = Given("typeerror", <<>>)]
          /\ issued' = [issued EXCEPT !.scan = issued.scan + 1]
          /\ UNCHANGED <<pc, filtered_data, all_docs, bm25_task, vector_task,
                         result, outcome, return_path, failed_call>>
       \/ /\ IF issued.scan = 1
             THEN /\ Consistent(answers.get, Given("fail", <<>>))
                  /\ answers' = [answers EXCEPT !.get = Given("fail", <<>>)]
             ELSE /\ Consistent(answers.get_plain, Given("fail", <<>>))
                  /\ answers' = [answers EXCEPT !.get_plain = Given("fail", <<>>)]
          /\ Caught("scan")
          /\ UNCHANGED <<filtered_data, all_docs, bm25_task, vector_task, issued>>
       \/ /\ IF issued.scan = 1
             THEN /\ Consistent(answers.get, Given("ok", <<>>))
                  /\ answers' = [answers EXCEPT !.get = Given("ok", <<>>)]
             ELSE /\ Consistent(answers.get_plain, Given("ok", <<>>))
                  /\ answers' = [answers EXCEPT !.get_plain = Given("ok", <<>>)]
          /\ LET matching == MatchingDocs(store_docs, where)
                 data == IF issued.scan = 1 THEN Take(matching, pool_limit)
                         ELSE matching
                 cleaned == CleanDocs(data)
             IN /\ filtered_data' = data
                /\ issued' = [issued EXCEPT !.vector = issued.vector + 1]
                /\ IF data = <<>> \/ cleaned = <<>>
                   THEN /\ pc' = "vector_only"
                        /\ return_path' = IF data = <<>> THEN "304" ELSE "318"
                        /\ UNCHANGED <<all_docs, bm25_task, vector_task, result,
                                       outcome, failed_call>>
                   ELSE /\ all_docs' = LatestPool(cleaned, latest_mode, pool_limit)
                        /\ bm25_task' = "pending"
                        /\ vector_task' = "pending"
                        /\ pc' = "gather"
                        /\ UNCHANGED <<result, outcome, return_path, failed_call>>
    /\ UNCHANGED <<env, _vector_store, calls, returned, request, top_k, weights,
                   candidate_k, latest_mode, where, pool_limit, bm25_results,
                   vector_results, fused>>
    /\ UNCHANGED <<ingest, agent>>

\* What the vector retriever (search_kwargs k=candidate_k, filter=where) may
\* answer: a ranking of the matching documents, at most candidate_k of them.
VectorRankings == Rankings(MatchingDocs(store_docs, where), candidate_k)
\* What the BM25 retriever (k=candidate_k) over all_docs may answer
Bm25Rankings == Rankings(all_docs, candidate_k)

\* lines 304 and 318: "return await vector_retriever.ainvoke(query)"
\* the fallback returning nothing instead of the retriever's answer
VectorOnlyResultEmpty(ranking, topk) == <<>>
VectorOnlyResult(ranking, topk) == ranking

VectorOnlyAnswer ==
    /\ pc = "vector_only"
    /\ \/ /\ Consistent(answers.vector, Given("fail", <<>>))
          /\ answers' = [answers EXCEPT !.vector = Given("fail", <<>>)]
          /\ Caught("vector")
       \/ \E ranking \in VectorRankings :
             /\ Consistent(answers.vector, Given("ok", ranking))
             /\ answers' = [answers EXCEPT !.vector = Given("ok", ranking)]
             /\ result' = VectorOnlyResult(ranking, top_k)
             /\ outcome' = "returned"
             /\ pc' = "done"
             /\ UNCHANGED <<return_path, failed_call>>
    /\ UNCHANGED <<env, _vector_store, calls, returned, request, top_k, weights,
                   candidate_k, latest_mode, where, pool_limit, filtered_data,
                   all_docs, bm25_task, vector_task, bm25_results,
                   vector_results, fused, issued>>
    /\ UNCHANGED <<ingest, agent>>

\* lines 326-332: the two retrievers run under asyncio.gather.  An exception
\* of either one leaves gather at once and reaches line 360.
Bm25Answer ==
    /\ pc = "gather" /\ bm25_task = "pending"
    /\ \/ /\ Consistent(answers.bm25, Given("fail", <<>>))
          /\ answers' = [answers EXCEPT !.bm25 = Given("fail", <<>>)]
          /\ bm25_task' = "failed"
          /\ Caught("bm25")
          /\ UNCHANGED bm25_results
       \/ \E ranking \in Bm25Rankings :
             /\ Consistent(answers.bm25, Given("ok", ranking))
             /\ answers' = [answers EXCEPT !.bm25 = Given("ok", ranking)]
             /\ bm25_task' = "done"
             /\ bm25_results' = ranking
             /\ UNCHANGED <<pc, result, outcome, return_path, failed_call>>
    /\ UNCHANGED <<env, _vector_store, calls, returned, request, top_k, weights,
                   candidate_k, latest_mode, where, pool_limit, filtered_data,
                   all_docs, vector_task, vector_results, fused, issued>>
    /\ UNCHANGED <<ingest, agent>>

VectorAnswer ==
    /\ pc = "gather" /\ vector_task = "pending"
    /\ \/ /\ Consistent(answers.vector, Given("fail", <<>>))
          /\ answers' = [answers EXCEPT !.vector = Given("fail", <<>>)]
          /\ vector_task' = "failed"
          /\ Caught("vector")
          /\ UNCHANGED vector_results
       \/ \E ranking \in VectorRankings :
             /\ Consistent(answers.vector, Given("ok", ranking))
             /\ answers' = [answers EXCEPT !.vector = Given("ok", ranking)]
             /\ vector_task' = "done"
             /\ vector_results' = ranking
             /\ UNCHANGED <<pc, result, outcome, return_path, failed_call>>
    /\ UNCHANGED <<env, _vector_store, calls, returned, request, top_k, weights,
                   candidate_k, latest_mode, where, pool_limit, filtered_data,
                   all_docs, bm25_task, bm25_results, fused, issued>>
    /\ UNCHANGED <<ingest, agent>>

\* lines 334-343: fusion, then the newest-first sort of latest mode
FusedList(vec, bm25, w, ck, latest) ==
    LET f == apply_rrf(vec, bm25, w, ck)
    IN IF latest /\ f # <<>> THEN SortByRecency(f) ELSE f

\* line 358
FusedResult(fusedList, topk) == Take(fusedList, topk)

\* lines 334-350 up to the reranker call being issued, or to the return of
\* line 358: runs when gather has both results.
\* os.getenv("COHERE_API_KEY") is read at line 346 ("set" or "unset"); the
\* condition of line 347 short-circuits, so it only matters with use_reranker.
Fuse ==
    /\ pc = "gather" /\ bm25_task = "done" /\ vector_task = "done"
    /\ LET f == FusedList(vector_results, bm25_results, weights, candidate_k, latest_mode)
       IN /\ fused' = f
          /\ \E key \in (IF request.use_reranker THEN {"set", "unset"} ELSE {"unread"}) :
                /\ request.use_reranker => Consistent(answers.cohere_key, Given(key, <<>>))
                /\ answers' = IF request.use_reranker
                              THEN [answers EXCEPT !.cohere_key = Given(key, <<>>)]
                              ELSE answers
                /\ IF key = "set" /\ f # <<>>
                   THEN /\ pc' = "rerank"
                        /\ issued' = [issued EXCEPT !.rerank = issued.rerank + 1]
                        /\ UNCHANGED <<result, outcome, return_path>>
                   ELSE /\ result' = FusedResult(f, top_k)
                        /\ outcome' = "returned"
                        /\ return_path' = "358"
                        /\ pc' = "done"
                        /\ UNCHANGED issued
    /\ UNCHANGED <<env, _vector_store, calls, returned, request, top_k,
                   weights, candidate_k, latest_mode, where, pool_limit,
                   filtered_data, all_docs, bm25_task, vector_task, bm25_results,
                   vector_results, failed_call>>
    /\ UNCHANGED <<ingest, agent>>

\* What CohereRerank(top_n=top_k).compress_documents(fused, query) may
\* answer: the top_n documents of fused it finds most relevant, in its order.
RerankAnswers == Rankings(fused, top_k)

\* lines 351-353
RerankedResult(reranked, topk, latest) ==
    Take(IF latest /\ reranked # <<>> THEN SortByRecency(reranked) ELSE reranked, topk)

\* the failure handler returning nothing instead of the fused list
RerankFailedResultEmpty(fusedList, topk) == <<>>
\* lines 354-356
RerankFailedResult(fusedList, topk) == Take(fusedList, topk)

\* lines 348-356: the reranker call answers or raises
RerankAnswer ==
    /\ pc = "rerank"
    /\ \/ /\ Consistent(answers.rerank, Given("fail", <<>>))
          /\ answers' = [answers EXCEPT !.rerank = Given("fail", <<>>)]
          /\ result' = RerankFailedResult(fused, top_k)
          /\ return_path' = "356"
          /\ failed_call' = "rerank"
       \/ \E reranked \in RerankAnswers :
             /\ Consistent(answers.rerank, Given("ok", reranked))
             /\ answers' = [answers EXCEPT !.rerank = Given("ok", reranked)]
             /\ result' = RerankedResult(reranked, top_k, latest_mode)
             /\ return_path' = "353"
             /\ UNCHANGED failed_call
    /\ outcome' = "returned"
    /\ pc' = "done"
    /\ UNCHANGED <<env, _vector_store, calls, returned, request, top_k, weights,
                   candidate_k, latest_mode, where, pool_limit, filtered_data,
                   all_docs, bm25_task, vector_task, bm25_results,
                   vector_results, fused, issued>>
    /\ UNCHANGED <<ingest, agent>>

\* The call ends: the caller has the list (or the exception) and the frame
\* of the call is gone.
Return ==
    /\ pc = "done"
    /\ returned' = Append(returned, [outcome |-> outcome, docs |-> result])
    /\ pc' = "idle"
    /\ top_k' = 0 /\ weights' = <<0, 0>> /\ candidate_k' = 0 /\ latest_mode' = FALSE
    /\ where' = NoWhere /\ pool_limit' = 0 /\ filtered_data' = <<>>
    /\ all_docs' = <<>> /\ issued' = NothingIssued
    /\ bm25_task' = "none" /\ vector_task' = "none"
    /\ bm25_results' = <<>> /\ vector_results' = <<>> /\ fused' = <<>>
    /\ result' = <<>> /\ outcome' = "none" /\ return_path' = "none"
    /\ failed_call' = "none"
    /\ UNCHANGED <<env, _vector_store, answers, calls, request>>
    /\ UNCHANGED <<ingest, agent>>

Next ==
    \/ Call
    \/ GetStore
    \/ Scan
    \/ VectorOnlyAnswer
    \/ Bm25Answer
    \/ VectorAnswer
    \/ Fuse
    \/ RerankAnswer
    \/ Return

\* One call of hybrid_search, in a process whose store singleton is already
\* initialised or not
Spec == Init /\ [][Next]_vars

\* Two consecutive calls with the same arguments, from a fresh process
InitCold == Init /\ _vector_store = "None"
NextTwice == Next \/ CallAgain
SpecTwice == InitCold /\ [][NextTwice]_vars

\* ------------------------------------------------- the year filter alone
\* _build_where on a request that carries a year filter only, and the
\* store's selection store.get(where=where) under the predicate it builds.
Y2024 == <<"2", "0", "2", "4">>
Y2023 == <<"2", "0", "2", "3">>
S_NA == <<"N", "/", "A">>
Body == <<"r", "u", "l", "e">>

\* chunks of different ingestion eras: the year as a string, or missing and
\* written as "N/A"
DocS24 == Doc(Body, <<"S">>, D2024, PStr(Y2024), S_SEC)
DocS23 == Doc(Body, <<"T">>, D2023, PStr(Y2023), S_SEC)
DocI23 == Doc(Body, <<"I">>, D2023, PInt(2023), S_FED)
DocNA == Doc(Body, <<"U">>, D1900, PStr(S_NA), S_FED)

YearSnapshots ==
    {<<DocE, DocS24>>, <<DocA, DocS23, DocE, DocS24>>, <<DocI23, DocS23, DocNA>>,
     <<DocS24, DocNA, DocA>>, <<DocI23, DocE, DocS24, DocNA>>}

ExactYears ==
    {PInt(2024), PInt(2023), PStr(Y2024), PStr(<<" ">> \o Y2023 \o <<" ">>)}
YearRanges ==
    {PDict(PInt(2022), PInt(2023)), PDict(PInt(2018), None),
     PDict(None, PInt(2030)), PDict(PStr(Y2023), PInt(2024))}
MalformedYears ==
    {PStr(S_NA), PStr(<<"a", "b", "c">>), PStr(<<" ">>), PDict(None, None),
     PDict(PStr(<<"a", "b", "c">>), None)}
YearArgs == ExactYears \cup YearRanges \cup MalformedYears

InitWhere ==
    /\ store_docs \in YearSnapshots
    /\ _vector_store = "store"
    /\ Idle
    /\ IngestIdle
    /\ AgentIdle

\* line 276, for filters = {"year": year}
BuildWhere ==
    /\ pc = "idle"
    /\ \E year \in YearArgs :
          /\ request' = [NoRequest EXCEPT !.filters = [FiltersEmpty EXCEPT !.year = year]]
          /\ where' = _build_where([FiltersEmpty EXCEPT !.year = year])
    /\ pc' = "built"
    /\ UNCHANGED <<env, _vector_store, answers, calls, returned, top_k, weights,
                   candidate_k, latest_mode, pool_limit, filtered_data, all_docs,
                   bm25_task, vector_task, bm25_results, vector_results, fused,
                   result, issued, outcome, return_path, failed_call>>
    /\ UNCHANGED <<ingest, agent>>

\* the store evaluates the predicate on every document it holds
Select ==
    /\ pc = "built"
    /\ filtered_data' = MatchingDocs(store_docs, where)
    /\ pc' = "selected"
    /\ UNCHANGED <<env, _vector_store, answers, calls, returned, request, top_k,
                   weights, candidate_k, latest_mode, where, pool_limit, all_docs,
                   bm25_task, vector_task, bm25_results, vector_results, fused,
                   result, issued, outcome, return_path, failed_call>>
    /\ UNCHANGED <<ingest, agent>>

NextWhere == BuildWhere \/ Select
SpecWhere == InitWhere /\ [][NextWhere]_vars

\* ------------------------------------------------------------- ingestion
\* vector_store.add_documents.  A chunk carries the metadata its identifier
\* reads; the values are primitive and present, which _sanitize_docs leaves
\* as they are.
Chunk(content, url, doc_id, page) ==
    [page_content |-> content,
     metadata |-> [url |-> url, source |-> None, doc_id |-> doc_id, page |-> page]]

\* hashlib.sha1(...).hexdigest().  The digest is kept symbolic: a string that
\* stands for the text hashed, so that equal texts have equal digests and
\* different texts different ones (SHA-1 taken as collision free).
_sha1(str) == <<"sha1(">> \o str \o <<")">>

\* f"{page}"
PageStr(page) == IF page.t = "none" THEN <<"N", "o", "n", "e">> ELSE StrOf(page)

_stable_chunk_id(doc) ==
    LET md == doc.metadata
        url == Strip(IF Truthy(md.url) THEN md.url.s
                     ELSE IF Truthy(md.source) THEN md.source.s ELSE <<>>)
        doc_id == Strip(IF Truthy(md.doc_id) THEN md.doc_id.s ELSE <<>>)
        text == Strip(doc.page_content)
        content_hash == IF text # <<>> THEN _sha1(Take(text, 5000))
                        ELSE <<"no_content">>
        base == <<"url=">> \o url \o <<"::doc_id=">> \o doc_id
                \o <<"::page=">> \o PageStr(md.page) \o <<"::ch=">> \o content_hash
    IN _sha1(base)

\* lines 143-153: the ids of one batch; i is the offset of the batch in docs
\* and j the position in the batch, both counted from 0
RECURSIVE IdsFrom(_, _, _, _)
IdsFrom(batch, i, j, seen) ==
    IF j >= Len(batch) THEN <<>>
    ELSE LET first == _stable_chunk_id(batch[j + 1])
             cid == IF first \in seen
                    THEN _sha1(first \o <<"::dup::">> \o IntToStr(i + j))
                    ELSE first
         IN <<cid>> \o IdsFrom(batch, i, j + 1, seen \cup {cid})
BatchIds(batch, i) == IdsFrom(batch, i, 0, {})

\* a slice one document too long
BatchOverlapping(all, i, size) == SubSeq(all, i + 1, Min(i + size + 1, Len(all)))
\* line 141: docs[i : i + batch_size]
Batch(all, i, size) == SubSeq(all, i + 1, Min(i + size, Len(all)))

U_SEC == <<"h", "t", "t", "p", "s", ":", "/", "/", "s", "e", "c">>
\* two chunks of one page of one document, a chunk of its next page, and the
\* same text under another document
Chunks ==
    {Chunk(<<"a">>, PStr(U_SEC), PStr(<<"X">>), PInt(1)),
     Chunk(<<"b">>, PStr(U_SEC), PStr(<<"X">>), PInt(1)),
     Chunk(<<"a", " ">>, PStr(U_SEC), PStr(<<"Y">>), None)}

MaxDocs == 3
MaxBatch == 2
MaxAddCalls == 2
DocLists == UNION {[1..n -> Chunks] : n \in 0..MaxDocs}

InitIngest ==
    /\ store_docs = <<>>
    /\ _vector_store = "store"
    /\ Idle
    /\ IngestIdle
    /\ AgentIdle

\* What the collection holds after store.add_documents(documents, ids): an
\* id that is already held is written over (an upsert)
Upsert(held, documents, ids) ==
    {e \in held : \A n \in 1..Len(ids) : e[1] # ids[n]}
    \cup {<<ids[n], documents[n]>> : n \in 1..Len(ids)}

\* lines 122-139: add_documents(docs, batch_size) is called; an empty list
\* returns at once
AddDocuments ==
    /\ add_pc = "idle" /\ add_calls < MaxAddCalls
    /\ add_calls' = add_calls + 1
    /\ \E d \in DocLists, size \in 1..MaxBatch :
          /\ input_docs' = d
          /\ batch_size' = size
          /\ add_pc' = IF d = <<>> THEN "done" ELSE "loop"
    /\ batch_start' = 0
    /\ upserts' = <<>>
    /\ UNCHANGED <<agent, search, collection>>

\* lines 140-162: one turn of the loop.  The ids of the batch are computed
\* and checked, and store.add_documents(documents=batch, ids=ids) is called;
\* it answers or raises, and line 168 raises again what was raised.
AddBatch ==
    /\ add_pc = "loop"
    /\ LET batch == Batch(input_docs, batch_start, batch_size)
           ids == BatchIds(batch, batch_start)
       IN IF Len(ids) # Cardinality({ids[n] : n \in 1..Len(ids)})
          THEN /\ add_pc' = "raised"
               /\ UNCHANGED <<batch_start, upserts, collection>>
          ELSE /\ upserts' = Append(upserts, [start |-> batch_start,
                                              documents |-> batch, ids |-> ids])
               /\ \/ /\ collection' = Upsert(collection, batch, ids)
                     /\ batch_start' = batch_start + batch_size
                     /\ add_pc' = IF batch_start + batch_size >= Len(input_docs)
                                  THEN "done" ELSE "loop"
                  \/ /\ add_pc' = "raised"
                     /\ UNCHANGED <<batch_start, collection>>
    /\ UNCHANGED <<agent, search, add_calls, input_docs, batch_size>>

\* add_documents returns None (line 164) or the exception leaves it
AddReturn ==
    /\ add_pc \in {"done", "raised"}
    /\ add_pc' = "idle"
    /\ input_docs' = <<>> /\ batch_size' = 0 /\ batch_start' = 0
    /\ UNCHANGED <<agent, search, add_calls, upserts, collection>>

NextIngest == AddDocuments \/ AddBatch \/ AddReturn
SpecIngest == InitIngest /\ [][NextIngest]_vars

\* ------------------------------------------------------ apply_rrf alone
\* apply_rrf as a function of its arguments: two ranked lists of distinct
\* chunks, the weights hybrid_search may pass (each >= 0, not both 0) and
\* limit = candidate_k
MaxListLen == 3
RrfDocs == <<DocA, DocB1, DocB2, DocE>>
RankedLists == UNION {Rankings(RrfDocs, n) : n \in 0..MaxListLen}
RrfWeights == {<<DEFAULT_BM25_WEIGHT, DEFAULT_VECTOR_WEIGHT>>, <<5, 5>>, <<4, 0>>}

InitRrf ==
    /\ store_docs = <<>>
    /\ _vector_store = "store"
    /\ Idle
    /\ IngestIdle
    /\ AgentIdle

\* line 334: the arguments are bound
CallRrf ==
    /\ pc = "idle"
    /\ bm25_results' \in RankedLists
    /\ vector_results' \in RankedLists
    /\ weights' \in RrfWeights
    /\ candidate_k' = CandidateK(1)
    /\ pc' = "rrf"
    /\ UNCHANGED <<env, _vector_store, answers, calls, returned, request, top_k,
                   latest_mode, where, pool_limit, filtered_data, all_docs,
                   bm25_task, vector_task, fused, result, issued, outcome,
                   return_path, failed_call>>
    /\ UNCHANGED <<ingest, agent>>

\* lines 235-249
ApplyRrf ==
    /\ pc = "rrf"
    /\ fused' = apply_rrf(vector_results, bm25_results, weights, candidate_k)
    /\ pc' = "fused"
    /\ UNCHANGED <<env, _vector_store, answers, calls, returned, request, top_k,
                   weights, candidate_k, latest_mode, where, pool_limit,
                   filtered_data, all_docs, bm25_task, vector_task, bm25_results,
                   vector_results, result, issued, outcome, return_path,
                   failed_call>>
    /\ UNCHANGED <<ingest, agent>>

NextRrf == CallRrf \/ ApplyRrf
SpecRrf == InitRrf /\ [][NextRrf]_vars

\* -------------------------------------------------- the lexical pool alone
\* Lines 286-327 with the pool caps configured: lines 48-49 read
\* HYBRID_BM25_POOL_LIMIT and HYBRID_LATEST_POOL from the environment, so a
\* deployment may set them below the size of its collection.
MaxPoolLimit == 2
\* a chunk whose date the crawler could not read, and the chunks of the model
\* with a date of 2022, of 2024, the ingestion default 1900-01-01, and no text
DocUndated == Doc(<<"r", "a", "t", "e", "s", " ", "u">>, <<"W">>, Unknown, PInt(2021), S_SEC)
PoolDocs == <<DocA, DocE, DocUndated, DocNA, DocNew>>
PoolStores == UNION {Rankings(PoolDocs, n) : n \in 0..MaxDocs}

InitPool ==
    /\ store_docs \in PoolStores
    /\ _vector_store = "store"
    /\ Idle
    /\ IngestIdle
    /\ AgentIdle

\* lines 260-291 for a call without filters: top_k, candidate_k and
\* latest_mode are set, the pool limit is computed from the configured caps
\* (line 287) and the bulk scan is issued
ConfiguredScan ==
    /\ pc = "idle"
    /\ \E k \in 1..MaxK, latest \in BOOLEAN,
          bm25_pool_limit \in 1..MaxPoolLimit, latest_pool \in 1..MaxPoolLimit :
          /\ top_k' = k
          /\ candidate_k' = CandidateK(k)
          /\ latest_mode' = latest
          /\ pool_limit' = IF latest THEN Max(latest_pool, CandidateK(k) * 8)
                           ELSE bm25_pool_limit
    /\ calls' = calls + 1
    /\ where' = NoWhere
    /\ issued' = [issued EXCEPT !.scan = 1]
    /\ pc' = "scan"
    /\ UNCHANGED <<env, _vector_store, answers, returned, request, weights,
                   filtered_data, all_docs, bm25_task, vector_task,
                   bm25_results, vector_results, fused, result, outcome,
                   return_path, failed_call>>
    /\ UNCHANGED <<ingest, agent>>

NextPool == ConfiguredScan \/ Scan
SpecPool == InitPool /\ [][NextPool]_vars

\* ----------------------------------------------------------- agent graph
\* graph/constants.py, abbreviated to their first words
SAFE_CLARIFICATION_MSG ==
    <<"I", " ", "c", "a", "n", "'", "t", " ", "c", "o", "n", "f", "i", "r", "m">>
SAFE_MEETING_MSG ==
    <<"W", "h", "i", "c", "h", " ", "m", "e", "e", "t", "i", "n", "g">>
\* the literals of builder.py line 66, validation.py line 187, merge.py
\* line 76 and direct_response.py line 41, abbreviated
NO_ANSWER_MSG == <<"I", " ", "c", "o", "u", "l", "d", "n", "'", "t">>
VALIDATION_ISSUE_MSG == <<"I", " ", "r", "a", "n", " ", "i", "n", "t", "o">>
MERGE_ERROR_MSG == <<"I", " ", "e", "n", "c", "o", "u", "n", "t", "e", "r", "e", "d">>
GREETING_MSG == <<"H", "e", "l", "l", "o", "!">>
S_MEETING == <<"m", "e", "e", "t", "i", "n", "g">>

\* Python's `sub in str`
Contains(str, sub) ==
    \E i \in 1..(Len(str) - Len(sub) + 1) : SubSeq(str, i, i + Len(sub) - 1) = sub
\* Python's `a or b` on strings
StrOr(a, b) == IF a # <<>> THEN a ELSE b

MaxValidationIterations == 3
AgentQueries ==
    {<<"r", "a", "t", "e", "s">>,
     <<"F", "O", "M", "C", " ", "M", "e", "e", "t", "i", "n", "g">>}
Intents == {"regulatory_lookup", "calculation", "structured", "other"}
\* what the synthesis model may write, stripped (merge.py line 62)
Drafts == {<<>>, <<"a", "1">>, <<"a", "2">>}
\* what the direct-response model may write (direct_response.py line 37)
Contents == {<<>>, <<" ">>, <<"h", "i", " ">>}

\* router.py lines 33-63
route_query(st) ==
    IF st.intent = "calculation" THEN "calculation"
    ELSE IF st.intent = "structured" THEN "structured"
    ELSE IF st.intent = "regulatory_lookup" \/ st.strong_filters THEN "rag"
    ELSE "other"

route_after_planner(st) ==
    IF st.route \in {"rag", "structured", "calculation"}
    THEN "retrieval_node" ELSE "direct_response_node"

route_after_retrieval(st) ==
    IF st.route = "structured" THEN "structured_node"
    ELSE IF st.route = "calculation" THEN "calculation_node"
    ELSE IF st.tool_steps THEN "tools_node" ELSE "synthesis_node"

DecideEndUncapped(st, max) == IF ~st.validation_result THEN "planner_node" ELSE "END"

DecideEndIgnoresVerdict(st, max) == IF st.iterations >= max THEN "END" ELSE "planner_node"

\* builder.py lines 117-136
decide_end(st, max) ==
    IF st.iterations >= max THEN "END"
    ELSE IF ~st.validation_result THEN "planner_node"
    ELSE "END"

\* the mapping of the conditional edge of critic_node (builder.py line 195)
AfterCritic(decision) == IF decision = "END" THEN "finalize_node" ELSE decision

\* validation.py line 102
Draft(st) == Strip(StrOr(st.synthesized_response, st.response))

\* validation.py lines 137-163: the critic model's parsed verdict, turned
\* valid when the citation override applies
IsValid(parsed_valid, override) == parsed_valid \/ override

ValidateLocksDraft(st, verdict) ==
    [st EXCEPT !.validation_result = (verdict # "invalid"),
               !.iterations = st.iterations + 1,
               !.final_output = StrOr(Draft(st), VALIDATION_ISSUE_MSG)]

\* validation.py lines 100-193: the update critic_node returns, merged into
\* the state; verdict is "valid", "invalid" or "raised" (the except branch)
validate_response(st, verdict) ==
    LET draft == Draft(st)
        next_iter == st.iterations + 1
    IN  CASE verdict = "valid" ->
               [st EXCEPT !.validation_result = TRUE, !.iterations = next_iter,
                          !.final_output = draft]
          [] verdict = "invalid" ->
               [st EXCEPT !.validation_result = FALSE, !.iterations = next_iter,
                          !.final_output = SAFE_CLARIFICATION_MSG,
                          !.synthesized_response = SAFE_CLARIFICATION_MSG]
          [] OTHER ->
               [st EXCEPT !.validation_result = TRUE, !.iterations = next_iter,
                          !.final_output = StrOr(draft, VALIDATION_ISSUE_MSG)]

\* builder.py lines 36-67
finalize_response(st) ==
    LET is_valid == st.validation_result
        final_output == Strip(st.final_output)
    IN  IF final_output # <<>> THEN [st EXCEPT !.final_output = final_output]
        ELSE IF ~is_valid
        THEN [st EXCEPT !.final_output =
                            IF Contains(Lower(Strip(st.query)), S_MEETING)
                            THEN SAFE_MEETING_MSG ELSE SAFE_CLARIFICATION_MSG,
                        !.synthesized_response = <<>>,
                        !.response = <<>>]
        ELSE [st EXCEPT !.final_output =
                            StrOr(Strip(st.synthesized_response),
                                  StrOr(Strip(st.response), NO_ANSWER_MSG))]

InitGraph ==
    /\ store_docs = <<>>
    /\ _vector_store = "store"
    /\ Idle
    /\ IngestIdle
    /\ AgentIdle

\* app.ainvoke(initial_state): START -> intent_node (builder.py line 160)
Invoke ==
    /\ node = "idle"
    /\ \E query \in AgentQueries : state' = InitialState(query)
    /\ max_iter' \in 1..MaxValidationIterations
    /\ critic_log' = <<>>
    /\ node' = "intent_node"
    /\ UNCHANGED <<search, ingest>>

\* classify_intent, then the edge of line 161
IntentNode ==
    /\ node = "intent_node"
    /\ \E intent \in Intents : state' = [state EXCEPT !.intent = intent]
    /\ node' = "extract_filters_node"
    /\ UNCHANGED <<search, ingest, max_iter, critic_log>>

\* extract_filters, then the edge of line 162
ExtractFiltersNode ==
    /\ node = "extract_filters_node"
    /\ \E strong \in BOOLEAN : state' = [state EXCEPT !.strong_filters = strong]
    /\ node' = "planner_node"
    /\ UNCHANGED <<search, ingest, max_iter, critic_log>>

\* generate_plan, then the edge of line 165
PlannerNode ==
    /\ node = "planner_node"
    /\ \E tools \in BOOLEAN : state' = [state EXCEPT !.tool_steps = tools]
    /\ node' = "router_node"
    /\ UNCHANGED <<search, ingest, max_iter, critic_log>>

\* router_node, then the conditional edge of lines 166-173
RouterNode ==
    /\ node = "router_node"
    /\ state' = [state EXCEPT !.route = route_query(state)]
    /\ node' = route_after_planner(state')
    /\ UNCHANGED <<search, ingest, max_iter, critic_log>>

\* retrieve_docs, then the conditional edge of lines 178-187
RetrievalNode ==
    /\ node = "retrieval_node"
    /\ node' = route_after_retrieval(state)
    /\ UNCHANGED <<search, ingest, state, max_iter, critic_log>>

\* call_tools, structured_extraction and perform_calculation write
\* tool_outputs only; lines 188-190 lead to synthesis_node
ToolsNode ==
    /\ node = "tools_node"
    /\ node' = "synthesis_node"
    /\ UNCHANGED <<search, ingest, state, max_iter, critic_log>>

StructuredNode ==
    /\ node = "structured_node"
    /\ node' = "synthesis_node"
    /\ UNCHANGED <<search, ingest, state, max_iter, critic_log>>

CalculationNode ==
    /\ node = "calculation_node"
    /\ node' = "synthesis_node"
    /\ UNCHANGED <<search, ingest, state, max_iter, critic_log>>

\* merge_outputs, then the edge of line 191
SynthesisNode ==
    /\ node = "synthesis_node"
    /\ \E draft \in Drafts \cup {MERGE_ERROR_MSG} :
          state' = [state EXCEPT !.synthesized_response = draft]
    /\ node' = "critic_node"
    /\ UNCHANGED <<search, ingest, max_iter, critic_log>>

\* validate_response, then the conditional edge of lines 194-196
CriticNode ==
    /\ node = "critic_node"
    /\ \E parsed_valid \in BOOLEAN, override \in BOOLEAN, raised \in BOOLEAN :
          LET verdict == IF raised THEN "raised"
                         ELSE IF IsValid(parsed_valid, override) THEN "valid"
                         ELSE "invalid"
          IN  /\ state' = validate_response(state, verdict)
              /\ critic_log' = Append(critic_log,
                                      [draft |-> Draft(state), verdict |-> verdict,
                                       before |-> state.iterations,
                                       after |-> state'.iterations])
    /\ node' = AfterCritic(decide_end(state', max_iter))
    /\ UNCHANGED <<search, ingest, max_iter>>

\* direct_response, then the edge of line 197
DirectResponseNode ==
    /\ node = "direct_response_node"
    /\ \E content \in Contents \cup {GREETING_MSG} :
          state' = [state EXCEPT !.final_output = content]
    /\ node' = "finalize_node"
    /\ UNCHANGED <<search, ingest, max_iter, critic_log>>

\* finalize_response, then the edge to END of line 198
FinalizeNode ==
    /\ node = "finalize_node"
    /\ state' = finalize_response(state)
    /\ node' = "END"
    /\ UNCHANGED <<search, ingest, max_iter, critic_log>>

NextGraph ==
    \/ Invoke
    \/ IntentNode
    \/ ExtractFiltersNode
    \/ PlannerNode
    \/ RouterNode
    \/ RetrievalNode
    \/ ToolsNode
    \/ StructuredNode
    \/ CalculationNode
    \/ SynthesisNode
    \/ CriticNode
    \/ DirectResponseNode
    \/ FinalizeNode

\* A node that has been scheduled runs to its end and the graph schedules
\* its successor
SpecGraph == InitGraph /\ [][NextGraph]_vars /\ WF_vars(NextGraph)

\* ================================================================ claims
Returned == pc = "done" /\ outcome = "returned"

\* C1: every list hybrid_search returns has at most top_k elements, on every
\* return path (fused, reranked, reranker failure, vector-only fallback).
C1_AtMostTopK == Returned => Len(result) <= top_k

\* C2: hybrid_search never raises to its caller: whichever external call
\* fails, the caller receives a list, and the empty list when
\* get_vector_store raised.
C2_NeverRaises ==
    pc = "done" =>
        /\ outcome = "returned"
        /\ failed_call = "get_vector_store" => result = <<>>
C2_Witness == Returned /\ failed_call \in {"scan", "vector", "bm25"}

\* C3 (as stated): a configuration error met when the search obtains the
\* store reaches the caller as an explicit failure, not as a result list.
C3_ConfigErrorSurfaced ==
    pc = "done" /\ failed_call = "get_vector_store" => outcome = "raised"

\* C3 (amended): a configuration error met when the search obtains the store
\* is caught inside hybrid_search: the call takes the return of line 362 and
\* the caller receives the empty list.
C3_ConfigErrorReturnsEmpty ==
    pc = "done" /\ failed_call = "get_vector_store" =>
        return_path = "362" /\ outcome # "raised" /\ Len(result) = 0
C3_Witness ==
    pc = "done" /\ failed_call = "get_vector_store" /\ answers.construct.st = "fail"

\* C4: when the reranker call raises, hybrid_search returns exactly the first
\* top_k documents of the fused list, in the fused order, and no error.
C4_RerankFailureKeepsFused ==
    pc = "done" /\ failed_call = "rerank" =>
        /\ outcome = "returned"
        /\ Len(result) = Min(top_k, Len(fused))
        /\ \A i \in 1..Len(result) : result[i] = fused[i]
        /\ fused = FusedList(vector_results, bm25_results, weights, candidate_k,
                             latest_mode)
C4_Witness ==
    pc = "done" /\ failed_call = "rerank" /\ Len(fused) > top_k /\ result # <<>>

NonIncreasingRecency(docs) ==
    \A i \in 1..(Len(docs) - 1) :
        KeyGeq(_recency_key(docs[i]), _recency_key(docs[i + 1]))

\* C5: with latest intent active, every returned list is ordered by
\* non-increasing recency key, on every return path.
C5_LatestOrdered == Returned /\ latest_mode => NonIncreasingRecency(result)

\* The candidate documents retrieved for the query
Candidates ==
    IF return_path \in {"304", "318"} THEN answers.vector.docs
    ELSE bm25_results \o vector_results

\* C6: in latest mode with top_k = 1, the single returned document has the
\* maximal recency key among the candidates, with or without the reranker.
C6_NewestFirst ==
    Returned /\ latest_mode /\ top_k = 1 /\ failed_call = "none"
             /\ Candidates # <<>> =>
        /\ Len(result) = 1
        /\ \A i \in 1..Len(Candidates) :
              KeyGeq(_recency_key(result[1]), _recency_key(Candidates[i]))

\* C7: a document at rank 1 in both the lexical and the vector list is the
\* first element of the apply_rrf output.
C7_TopOfBothIsFirst ==
    bm25_task = "done" /\ vector_task = "done"
    /\ bm25_results # <<>> /\ vector_results # <<>>
    /\ _doc_identity(bm25_results[1]) = _doc_identity(vector_results[1])
    /\ bm25_results[1].metadata = vector_results[1].metadata =>
        LET out == apply_rrf(vector_results, bm25_results, weights, candidate_k)
        IN out # <<>> /\ _doc_identity(out[1]) = _doc_identity(bm25_results[1])
              /\ out[1].metadata = bm25_results[1].metadata

\* C8: two consecutive calls with the same query and filters on the same
\* store snapshot, with the collaborators answering alike, return the same
\* documents in the same order.
C8_SameResultTwice == Len(returned) = 2 => returned[1] = returned[2]

\* The predicate of the call has been built (line 276 has run)
WhereBuilt ==
    \/ pc \in {"scan", "vector_only", "gather", "rerank"}
    \/ pc = "done" /\ failed_call # "get_vector_store"

\* A field of a filter request is populated when it is neither absent, None,
\* an empty list nor an empty string.
Populated(v) ==
    \/ v.t = "int"
    \/ v.t = "str" /\ v.s # <<>>
    \/ v.t = "list" /\ v.l # <<>>
    \/ v.t = "dict" /\ (v.l[1].t # "none" \/ v.l[2].t # "none")
ValuesOf(v) == IF v.t = "list" THEN {v.l[i] : i \in 1..Len(v.l)} ELSE {v}

\* the year a document records, as a number, whichever way it is stored
YearOf(md) == _safe_int(md.year)

YearConstraintHolds(year, md) ==
    IF year.t = "dict"
    THEN /\ YearOf(md).t = "int"
         /\ _safe_int(year.l[1]).t = "int" => YearOf(md).n >= _safe_int(year.l[1]).n
         /\ _safe_int(year.l[2]).t = "int" => YearOf(md).n <= _safe_int(year.l[2]).n
    ELSE IF _safe_int(year).t = "int"
    THEN YearOf(md).t = "int" /\ YearOf(md).n = _safe_int(year).n
    ELSE md.year = PStr(Strip(StrOf(year)))

SatisfiesAll(f, md) ==
    /\ Populated(f.regulators) => md.regulator \in ValuesOf(f.regulators)
    /\ Populated(f.categories) => md.category \in ValuesOf(f.categories)
    /\ Populated(f.types) => md.type \in ValuesOf(f.types)
    /\ Populated(f.jurisdiction) => md.jurisdiction = f.jurisdiction
    /\ Populated(f.spiders) => md.spider \in ValuesOf(f.spiders)
    /\ Populated(f.source_types) => md.source_type \in ValuesOf(f.source_types)
    /\ Populated(f.year) => YearConstraintHolds(f.year, md)

PopulatedKeys(f) ==
    {key \in {"regulator", "category", "type", "jurisdiction", "spider",
              "source_type", "year"} :
        Populated(CASE key = "regulator" -> f.regulators
                    [] key = "category" -> f.categories
                    [] key = "type" -> f.types
                    [] key = "jurisdiction" -> f.jurisdiction
                    [] key = "spider" -> f.spiders
                    [] key = "source_type" -> f.source_types
                    [] OTHER -> f.year)}

\* the top-level conditions of a predicate and the metadata key of each
ConditionsOf(w) ==
    IF w.op = "none" THEN <<>> ELSE IF w.op = "$and" THEN w.parts ELSE <<w>>
ConditionKey(c) == IF c.op = "$or" THEN c.parts[1].key ELSE c.key

\* C9: the predicate of _build_where is the conjunction of exactly one
\* condition per populated field, and every document hybrid_search returns
\* satisfies the constraint of every populated field.
C9_FilterConjunction ==
    WhereBuilt =>
        LET conds == ConditionsOf(where)
        IN /\ Len(conds) = Cardinality(PopulatedKeys(request.filters))
           /\ {ConditionKey(conds[i]) : i \in 1..Len(conds)} = PopulatedKeys(request.filters)
           /\ Returned =>
                 \A i \in 1..Len(result) : SatisfiesAll(request.filters, result[i].metadata)

\* C10: a filter request whose fields are all absent, None, an empty list or
\* an empty string gives the "no filter" predicate; an empty field adds no
\* condition.
C10_EmptyMeansNoFilter ==
    WhereBuilt /\ PopulatedKeys(request.filters) = {} => where = NoWhere

\* ------------------------------------------------------------ year filter
Selected == pc = "selected"
TheYear == request.filters.year
Holds(doc) == \E i \in 1..Len(filtered_data) : filtered_data[i] = doc
StoredDocs == {store_docs[i] : i \in 1..Len(store_docs)}

\* The two recordings of the year a numeric filter value names: the integer,
\* and the string (the rendering of an integer; a string as it is given,
\* without surrounding blanks).
YearAsInt(y) == _safe_int(y)
YearAsStr(y) == IF y.t = "int" THEN PStr(IntToStr(y.n)) ELSE PStr(Strip(y.s))

\* C11: for a year filter given as an integer or a numeric string, the store
\* selects every document whose year is recorded as that integer and every
\* document whose year is recorded as its string.
C11_ExactYearBothRecordings ==
    Selected /\ TheYear.t \in {"int", "str"} /\ YearAsInt(TheYear).t = "int" =>
        \A d \in StoredDocs :
            d.metadata.year \in {YearAsInt(TheYear), YearAsStr(TheYear)} => Holds(d)
C11_Witness ==
    /\ Selected /\ TheYear = PStr(Y2024)
    /\ Holds(DocE) /\ Holds(DocS24) /\ Len(filtered_data) = 2 /\ Len(store_docs) = 4

RangeGte == _safe_int(TheYear.l[1])
RangeLte == _safe_int(TheYear.l[2])
IsYearRange == TheYear.t = "dict" /\ (RangeGte.t = "int" \/ RangeLte.t = "int")
InRange(n) ==
    /\ RangeGte.t = "int" => n >= RangeGte.n
    /\ RangeLte.t = "int" => n <= RangeLte.n

\* C12: under a year range filter (a lower bound, an upper bound or both) the
\* store selects every document whose year lies within the range, whether
\* the year is recorded as an integer or as a string.
C12_RangeSelectsAllInRange ==
    Selected /\ IsYearRange =>
        \A d \in StoredDocs :
            YearOf(d.metadata).t = "int" /\ InRange(YearOf(d.metadata).n) => Holds(d)

\* A year filter value that is neither an integer, a numeric string, nor a
\* range with at least one integer bound
Malformed(y) ==
    \/ y.t = "str" /\ _safe_int(y).t = "none"
    \/ y.t = "dict" /\ _safe_int(y.l[1]).t = "none" /\ _safe_int(y.l[2]).t = "none"

\* C13: a malformed year filter value is dropped: _build_where adds no year
\* condition for it, and the selection is unconstrained on year.
C13_MalformedYearDropped ==
    pc \in {"built", "selected"} /\ Malformed(TheYear) =>
        /\ where = NoWhere
        /\ Selected => filtered_data = store_docs

\* -------------------------------------------------------------- the scan
\* The bulk scan has answered (the vector query is only issued after it) and
\* no document with text is in its answer.
EmptyPool == issued.vector > 0 /\ CleanDocs(filtered_data) = <<>>

\* C14: when the bulk scan answers with no document, or with blank documents
\* only, no lexical index is built, the reranker is not called, and the call
\* returns a list: the vector retriever's answer for the query when it gives
\* one.
C14_EmptyPoolGivesVectorOnly ==
    EmptyPool =>
        /\ pc \in {"vector_only", "done"}
        /\ all_docs = <<>> /\ bm25_task = "none" /\ answers.bm25 = Unasked
        /\ issued.rerank = 0 /\ answers.rerank = Unasked
        /\ pc = "done" =>
              /\ outcome = "returned"
              /\ answers.vector.st = "ok" =>
                    result = answers.vector.docs /\ failed_call = "none"
C14_Witness ==
    /\ EmptyPool /\ pc = "done" /\ filtered_data # <<>> /\ request.use_reranker
    /\ result # <<>> /\ result = answers.vector.docs

\* ------------------------------------------------------------- ingestion
\* C15: an identical chunk (same content, same metadata) submitted twice, in
\* two calls or twice within one call, has one identifier in the store.
C15_OneIdPerChunk == \A a, b \in collection : a[2] = b[2] => a[1] = b[1]

\* the store.add_documents calls of the running add_documents call
ThisCall == 1..Len(upserts)
\* those that carry the input document at position p (counted from 1)
Carrying(p) ==
    {u \in ThisCall :
        /\ upserts[u].start < p /\ p <= upserts[u].start + Len(upserts[u].documents)
        /\ upserts[u].documents[p - upserts[u].start] = input_docs[p]}

\* C16: every call to store.add_documents carries pairwise distinct ids, one
\* per document of its batch, and at most batch_size documents; an input
\* document is never sent in two batches, and once the loop has completed
\* every input document has been sent in exactly one.
C16_BatchesWellFormed ==
    /\ \A u \in 1..Len(upserts) :
          /\ Len(upserts[u].ids) = Len(upserts[u].documents)
          /\ \A m, n \in 1..Len(upserts[u].ids) :
                m # n => upserts[u].ids[m] # upserts[u].ids[n]
    /\ add_pc # "idle" =>
          /\ \A u \in ThisCall : Len(upserts[u].documents) \in 1..batch_size
          /\ \A p \in 1..Len(input_docs) : Cardinality(Carrying(p)) <= 1
          /\ add_pc = "done" => \A p \in 1..Len(input_docs) : Cardinality(Carrying(p)) = 1
C16_Witness ==
    /\ add_pc = "done" /\ Len(input_docs) = 3 /\ batch_size = 2 /\ input_docs[1] = input_docs[2]
    /\ Cardinality(ThisCall) = 2

\* ------------------------------------------------- concurrency and retries
\* store.get has been called and has not answered
ScanInFlight == pc = "scan"
\* vector_retriever.ainvoke has been called and has not answered
VectorInFlight == pc = "vector_only" \/ vector_task = "pending"

\* C17: the vector query is issued without waiting for the bulk scan, so the
\* scan is still in flight in the state that follows its issue, and fusion
\* starts only when the scan and both retrievers have completed.
C17_ScanAndVectorConcurrent ==
    [][/\ issued'.vector > issued.vector => ScanInFlight'
       /\ fused' # fused =>
             ~ScanInFlight /\ bm25_task = "done" /\ vector_task = "done"]_vars

\* C17, what the code does instead: the scan and the vector query are never
\* in flight together.
C17_NeverBothInFlight == ~(ScanInFlight /\ VectorInFlight)

\* The steps of a search that do not wait for the reranker's answer: a
\* timeout on the reranker call would be one of them.
StepWithoutReranker ==
    \/ GetStore \/ Scan \/ VectorOnlyAnswer \/ Bm25Answer \/ VectorAnswer
    \/ Fuse \/ Return

\* C18: a search does not hang on a reranker that never answers: while the
\* reranker call is in flight the search can take a step of its own (the
\* timeout and its fallback to the fused list), so it returns without the
\* reranker's answer.
C18_RerankNeverHangs == pc = "rerank" => ENABLED <<StepWithoutReranker>>_vars

\* C19: within one call the bulk scan, the vector query and the rerank call
\* are each issued at most once.
C19_IssuedAtMostOnce ==
    issued.scan <= 1 /\ issued.vector <= 1 /\ issued.rerank <= 1

\* C20: when the bulk scan raises, the vector query is still issued and the
\* call returns the vector retriever's answer.
C20_FailedScanGivesVectorOnly ==
    pc = "done" /\ failed_call = "scan" =>
        /\ issued.vector = 1
        /\ answers.vector.st = "ok" /\ result = answers.vector.docs

\* the runs of critic_node so far, and whether the last one rejected the draft
CriticRuns == Len(critic_log)
LastVerdict == IF critic_log = <<>> THEN "none" ELSE critic_log[Len(critic_log)].verdict

C22_DecideEndLoopsExactlyWhenInvalidBelowMax ==
    [][node = "critic_node" =>
          IF ~state'.validation_result /\ state'.iterations < max_iter
          THEN node' = "planner_node"
          ELSE node' = "finalize_node" /\ decide_end(state', max_iter) = "END"]_vars
\* decide_end has sent a rejected draft back to the planner
C22_Witness ==
    /\ node = "planner_node" /\ LastVerdict = "invalid"
    /\ ~state.validation_result /\ state.iterations < max_iter

\* C23: at END final_output is never empty, and when the last run of
\* critic_node rejected the draft (also when the iteration limit then ended
\* the loop) final_output is a safe clarification message and
\* synthesized_response is not the rejected draft.
C23_SafeOutputAtEnd ==
    node = "END" =>
        /\ state.final_output # <<>>
        /\ LastVerdict = "invalid" =>
              /\ state.final_output \in {SAFE_CLARIFICATION_MSG, SAFE_MEETING_MSG}
              /\ state.synthesized_response # critic_log[CriticRuns].draft
\* the iteration limit has ended the loop on a rejected, non-empty draft
C23_Witness ==
    /\ node = "END" /\ LastVerdict = "invalid" /\ CriticRuns = max_iter
    /\ critic_log[CriticRuns].draft \in Drafts \ {<<>>}
    /\ max_iter > 1

\* both retrievers have answered and apply_rrf is about to run
BothListsIn == pc = "gather" /\ bm25_task = "done" /\ vector_task = "done"
\* the same stored chunk, as the store returns it or with its text stripped
\* (the lexical pool holds stripped text, line 311)
SameChunk(a, b) ==
    a.metadata = b.metadata /\ Strip(a.page_content) = Strip(b.page_content)
\* what one list adds to a document's score: weight / (RRF_K + r) for the
\* rank r at which the document occurs in the list, nothing if it does not
RankContribution(list, weight, doc) ==
    IF \E r \in 1..Len(list) : SameChunk(list[r], doc)
    THEN Contribution(weight, CHOOSE r \in 1..Len(list) :
                                  /\ SameChunk(list[r], doc)
                                  /\ \A q \in 1..(r - 1) : ~SameChunk(list[q], doc))
    ELSE 0
RankScore(doc) ==
    RankContribution(bm25_results, weights[1], doc)
    + RankContribution(vector_results, weights[2], doc)

\* C24: the output of apply_rrf is in non-increasing order of the documents'
\* scores, a document's score being the sum over the lexical and the vector
\* list of weight / (60 + r) for its 1-indexed rank r in that list (one
\* contribution per list at most), and it holds at most limit = candidate_k
\* = max(top_k * multiplier, top_k) documents.
C24_FusedInRankScoreOrder ==
    BothListsIn =>
        LET out == apply_rrf(vector_results, bm25_results, weights, candidate_k)
        IN  /\ candidate_k = Max(top_k * DEFAULT_CANDIDATE_MULTIPLIER, top_k)
            /\ Len(out) <= candidate_k
            /\ \A i \in 1..(Len(out) - 1) : RankScore(out[i]) >= RankScore(out[i + 1])

\* the cumulative scores apply_rrf computes from two lists, by identity
FusedScores(vec, bm25) ==
    LET entries == RrfEntries(vec, bm25, weights)
        ids == {_doc_identity(entries[n].doc) : n \in 1..Len(entries)}
    IN  [id \in ids |-> RrfScore(entries, id)]
FusedIds(vec, bm25) ==
    LET out == apply_rrf(vec, bm25, weights, candidate_k)
    IN  [n \in 1..Len(out) |-> _doc_identity(out[n])]

\* C25: documents of equal cumulative score are ordered by their identifier
\* and not by their places in the input lists: rearranging the input lists
\* in a way that leaves every cumulative score as it is leaves the order of
\* the output as it is.
C25_TiesOrderedByIdentifier ==
    pc = "fused" =>
        \A vec \in Rankings(vector_results, Len(vector_results)),
           bm25 \in Rankings(bm25_results, Len(bm25_results)) :
            FusedScores(vec, bm25) = FusedScores(vector_results, bm25_results)
                => FusedIds(vec, bm25) = FusedIds(vector_results, bm25_results)

\* the identities of a list, and the occurrences apply_rrf visits, in its
\* order: the lexical list first, then the vector list
Identities(list) == {_doc_identity(list[n]) : n \in 1..Len(list)}
Visited == bm25_results \o vector_results
FirstOccurrence(id) ==
    Visited[CHOOSE n \in 1..Len(Visited) :
                /\ _doc_identity(Visited[n]) = id
                /\ \A q \in 1..(n - 1) : _doc_identity(Visited[q]) # id]
\* weight / (RRF_K + r) added up over the ranks r of a list that hold id
RECURSIVE ListSum(_, _, _, _)
ListSum(list, weight, id, upto) ==
    IF upto = 0 THEN 0
    ELSE ListSum(list, weight, id, upto - 1)
         + (IF _doc_identity(list[upto]) = id THEN Contribution(weight, upto) ELSE 0)
AddedScore(id) ==
    ListSum(bm25_results, weights[1], id, Len(bm25_results))
    + ListSum(vector_results, weights[2], id, Len(vector_results))

\* C26: the fused list holds no two entries of the same identity; an
\* identity that occurs in the lists has (within the limit) exactly one
\* entry, which is its first occurrence, content and metadata, in the order
\* lexical list then vector list; and the entries are placed by the sum of
\* the contributions of both lists.
C26_FusedDeduplicated ==
    pc = "fused" =>
        /\ \A i, j \in 1..Len(fused) :
              i # j => _doc_identity(fused[i]) # _doc_identity(fused[j])
        /\ \A n \in 1..Len(fused) : fused[n] = FirstOccurrence(_doc_identity(fused[n]))
        /\ Cardinality(Identities(Visited)) <= candidate_k =>
              Identities(fused) = Identities(Visited)
        /\ \A n \in 1..(Len(fused) - 1) :
              AddedScore(_doc_identity(fused[n])) >= AddedScore(_doc_identity(fused[n + 1]))
\* an identity is in both lists with different content, behind another
\* document in the lexical list, and the sum of both lists has put it first
C26_Witness ==
    /\ pc = "fused" /\ Len(fused) = 2
    /\ bm25_results = <<DocA, DocB1>> /\ vector_results = <<DocB2, DocA>>
    /\ weights = <<DEFAULT_BM25_WEIGHT, DEFAULT_VECTOR_WEIGHT>>
    /\ fused = <<DocB1, DocA>>

\* two chunks of one source document: same doc_id, different text
ChunksOfOneSource(a, b) ==
    /\ a.metadata.doc_id = b.metadata.doc_id /\ a.metadata.url = b.metadata.url
    /\ Strip(a.page_content) # Strip(b.page_content)
InFused(doc) == \E n \in 1..Len(fused) : fused[n] = doc

\* C27: two candidate documents with different content that come from the
\* same source document are not merged by apply_rrf: they have different
\* identities, and within the limit each of them has its entry in the
\* fused list.
C27_ChunksKeptApart ==
    pc = "fused" =>
        \A m, n \in 1..Len(Visited) :
            ChunksOfOneSource(Visited[m], Visited[n]) =>
                /\ _doc_identity(Visited[m]) # _doc_identity(Visited[n])
                /\ Cardinality(Identities(Visited)) <= candidate_k =>
                      InFused(Visited[m]) /\ InFused(Visited[n])

\* C28: for the same top_k (hence the same candidate_k), the pool limit of a
\* call in latest mode is at least the pool limit of a call that is not.
C28_LatestPoolAtLeastAsLarge ==
    issued.scan > 0 =>
        /\ latest_mode => pool_limit >= PoolLimit(FALSE, candidate_k)
        /\ ~latest_mode => PoolLimit(TRUE, candidate_k) >= pool_limit

\* C29: the documents handed to the lexical ranker (all_docs at line 326)
\* are never more than pool_limit, in latest and non-latest mode, whether the
\* store took the scan with limit and include or only the plain scan of
\* line 297.
C29_PoolWithinLimit == pc = "gather" => Len(all_docs) <= pool_limit

\* whether _recency_key finds a date it can parse in the metadata
HasParseableDate(doc) ==
    \/ _parse_date_to_epoch(doc.metadata.date).t # "none"
    \/ _parse_date_to_epoch(doc.metadata.moddate).t # "none"
    \/ _parse_date_to_epoch(doc.metadata.creationdate).t # "none"

\* C30: under the recency ordering of latest mode a document whose date is
\* absent or unparseable stays in the pool, and its recency key is at most
\* the key of every document with a parseable date, whatever that date is.
C30_UndatedRankOldest ==
    pc = "gather" /\ latest_mode =>
        /\ Len(all_docs) = Len(CleanDocs(filtered_data))
        /\ \A m, n \in 1..Len(all_docs) :
              ~HasParseableDate(all_docs[m]) /\ HasParseableDate(all_docs[n]) =>
                  /\ KeyGeq(_recency_key(all_docs[n]), _recency_key(all_docs[m]))
                  /\ n < m

====
